---- MODULE Spec2Model ----
(***************************************************************************)
(* apt-private/private-download.cc: the checks around a fetch run.         *)
(*                                                                         *)
(* The file is synchronous and single-threaded.  A function is an operator *)
(* from a "world" record (what has been written and looked up so far, and  *)
(* the answers the user will type) to its return value and the world it    *)
(* leaves; a call is one action.  CheckReproducible waits on subprocesses, *)
(* so it is one action per subprocess, its locals kept in frame; DoAutoClean *)
(* is one action per step that can fail (lock, cache, each directory), and *)
(* DoDownload one action up to CheckReproducible and one after it.         *)
(***************************************************************************)
EXTENDS Integers, Sequences, FiniteSets, TLC

VARIABLES cfg,     \* _config: key -> [set, val]
          Items,   \* the fetch queue of pkgAcquire (Fetcher.ItemsBegin()..ItemsEnd())
          fs,      \* the file system: what statvfs()/statfs() answer for the target
                   \* directory; for DoAutoClean the archive directory, its lock, its files
          Failure, \* the caller's bool behind AcquireRun's Failure pointer
          TransientNetworkFailure, \* the caller's bool behind the other pointer
          log,     \* everything written: c2out text, lists, prompts, _error entries, syscalls
          reads,   \* configuration keys looked up so far
          frame,   \* the locals of a call that waits on its subprocesses
          pc,      \* "ready" before the call, "done" after it returned, else the step
                   \* the call is at
          op,      \* the function that was called
          args,    \* the arguments it was called with
          ret      \* its return value (meaningful when pc = "done")

vars == <<cfg, Items, fs, Failure, TransientNetworkFailure, log, reads, frame, pc, op, args, ret>>

---------------------------------------------------------------------------
(* Bounds of the model *)

MaxItems == 2
MaxQuiet == 2
MaxRunItems == 2
MaxFetchBytes == 4
MaxBlockSize == 2
MaxBlocks == 2
\* archives a directory holds at most
MaxArchives == 2
\* versions a download command names at most
MaxDownloads == 2

---------------------------------------------------------------------------
(* The configuration store *)

KeyAllowUnauthenticated == "APT::Get::AllowUnauthenticated"
KeyAllowUnreproducible == "APT::Get::AllowUnreproducible"
KeyAssumeYes == "APT::Get::Assume-Yes"
KeyForceYes == "APT::Get::Force-Yes"
KeyQuiet == "quiet"
KeyDebugReproducible == "Debug::pkgAcquire::Reproducible"
KeyPrintURIs == "APT::Get::Print-URIs"
KeyDownload == "APT::Get::Download"
KeySandboxUser == "APT::Sandbox::User"
KeyStatusJsonUrl == "APT::Get::ReproducibleStatusJsonUrl"
KeyArchitecture == "APT::Architecture"
KeyReproducibleCache == "Dir::Cache::reproduciblecache"
KeyDefaultRelease == "APT::Default-Release"
KeySimulate == "APT::Get::Simulate"
KeyNoLocking == "Debug::NoLocking"
KeyArchives == "Dir::Cache::Archives"

BoolKeys == {KeyAllowUnauthenticated, KeyAllowUnreproducible, KeyAssumeYes,
             KeyForceYes, KeyDebugReproducible, KeyPrintURIs, KeyDownload, KeySimulate,
             KeyNoLocking}
IntKeys == {KeyQuiet}
StringKeys == {KeySandboxUser, KeyStatusJsonUrl, KeyArchitecture, KeyReproducibleCache,
               KeyDefaultRelease, KeyArchives}
Keys == BoolKeys \cup IntKeys \cup StringKeys

UnsetB == [set |-> FALSE, val |-> FALSE]
UnsetI == [set |-> FALSE, val |-> 0]
UnsetS == [set |-> FALSE, val |-> ""]
BoolSettings == {UnsetB} \cup {[set |-> TRUE, val |-> b] : b \in BOOLEAN}
QuietSettings == {UnsetI} \cup {[set |-> TRUE, val |-> q] : q \in 0..MaxQuiet}
UserSettings == {UnsetS, [set |-> TRUE, val |-> ""], [set |-> TRUE, val |-> "_apt"]}

\* the store with no key set
EmptyConfig ==
  [k \in Keys |-> IF k \in BoolKeys THEN UnsetB ELSE IF k \in IntKeys THEN UnsetI ELSE UnsetS]

\* _config->FindB / FindI / Find: the value of the key, or Default when it is
\* not set; the lookup is noted in the world
ConfigFind(w, key, Default) ==
  [v |-> IF cfg[key].set THEN cfg[key].val ELSE Default,
   w |-> [w EXCEPT !.reads = @ \cup {key}]]

---------------------------------------------------------------------------
(* The world a call runs in *)

Event(k, t, l) == [k |-> k, t |-> t, l |-> l]

\* what the call starts from: the log and the lookups so far, and the answers
\* the user will type
World(answers) == [log |-> log, reads |-> reads, stdin |-> answers]

Emit(w, k, t, l) == [w EXCEPT !.log = Append(@, Event(k, t, l))]

\* c2out << text
C2Out(w, text) == Emit(w, "c2out", text, <<>>)

\* ShowList(c2out, Title, List, ...): the title and every entry, when the list
\* is not empty
ShowList(w, Title, List) ==
  IF Len(List) = 0 THEN w ELSE Emit(w, "list", Title, List)

\* _error->Error(msg), _error->Errno(fn, msg): queue an error; the call's value
\* is false, which is what makes `return _error->Error(...)` a denial
GlobalErrorError(w, msg, params) == [ret |-> FALSE, w |-> Emit(w, "Error", msg, params)]

\* _error->Warning(msg), _error->WarningE(fn, msg): queue a warning; like every
\* message method of GlobalError the call's value is false
GlobalErrorWarning(w, msg, params) ==
  [ret |-> FALSE, w |-> Emit(w, "Warning", msg, params)]

\* YnPrompt(Question, Default): show the question, read the user's answer
\* (noted as typed); with no answer the default stands
YnPrompt(w, Question, Default) ==
  LET w1 == Emit(w, "prompt", Question, <<>>)
  IN IF Len(w1.stdin) = 0
       THEN [ret |-> Default, w |-> Emit(w1, "answer", "", <<>>)]
       ELSE [ret |-> Head(w1.stdin),
             w |-> [Emit(w1, "answer", IF Head(w1.stdin) THEN "yes" ELSE "no", <<>>)
                      EXCEPT !.stdin = Tail(@)]]

\* what the user may do at a prompt: nothing (end of input), yes, no
Answers == {<<>>, <<TRUE>>, <<FALSE>>}

Logged(k) == {i \in 1..Len(log) : log[i].k = k}
LoggedText(k, t) == \E i \in 1..Len(log) : log[i].k = k /\ log[i].t = t

---------------------------------------------------------------------------
(* The fetch queue *)

StatIdle == "StatIdle"
StatFetching == "StatFetching"
StatDone == "StatDone"
StatError == "StatError"
ItemStates == {StatIdle, StatFetching, StatDone, StatError}

PkgNames == <<"pkg1", "pkg2", "pkg3", "pkg4", "pkg5">>

\* a URI as text: its characters, runs of ordinary characters taken as one
URIText(userinfo, i) ==
  <<"http", ":", "/", "/">> \o userinfo \o <<"deb.example.org", "/", PkgNames[i]>>

\* the user-information parts a URI may carry: none, a user, a user and a password
UserInfos == {<<>>, <<"user", "@">>, <<"user", ":", "secret", "@">>}

\* the URI an item is fetched from, here with a user name and a password
ItemURI(i) == URIText(<<"user", ":", "secret", "@">>, i)

\* a freshly queued item: the i-th package of the command line
QueuedItem(i, trusted) ==
  [ShortDesc |-> PkgNames[i], Trusted |-> trusted, Status |-> StatIdle, Complete |-> FALSE,
   DescURI |-> ItemURI(i), ErrorText |-> ""]

\* the queues of n items, one per package
Queues(n) ==
  {[i \in 1..n |-> QueuedItem(i, t[i])] : t \in [1..n -> BOOLEAN]}

\* (*I)->ShortDesc() of every item of a list, in order
ShortDescs(items) == [i \in 1..Len(items) |-> items[i].ShortDesc]

---------------------------------------------------------------------------
(* TrustGate *)

MsgUnauthList == "WARNING: The following packages cannot be authenticated!"
MsgAuthOverridden == "Authentication warning overridden."
MsgNotAuthenticated == "Some packages could not be authenticated"
MsgInstallUnverified == "Install these packages without verification?"
MsgForceYesDeprecated == "--force-yes is deprecated, use one of the options starting with --allow instead."
MsgUnauthAndYes == "There were unauthenticated packages and -y was used without --allow-unauthenticated"

\* the `else if` arm and the final return of AuthPrompt: reached when no prompt
\* is to be shown
AuthPromptNoPrompt(w) ==
  LET force == ConfigFind(w, KeyForceYes, FALSE)
  IN IF force.v = TRUE
       THEN [ret |-> TRUE, w |-> GlobalErrorWarning(force.w, MsgForceYesDeprecated, <<>>).w]
       ELSE GlobalErrorError(force.w, MsgUnauthAndYes, <<>>)

\* AuthPrompt asking whether it may prompt before it looks at the override
AuthPromptInteractivityFirst(w, UntrustedList, PromptUser) ==
  LET w1 == ShowList(w, MsgUnauthList, UntrustedList)
      allow == ConfigFind(w1, KeyAllowUnauthenticated, FALSE)
      quiet == ConfigFind(allow.w, KeyQuiet, 0)
      yes == ConfigFind(quiet.w, KeyAssumeYes, FALSE)
  IN IF PromptUser = FALSE THEN GlobalErrorError(w1, MsgNotAuthenticated, <<>>)
     ELSE IF allow.v = TRUE THEN [ret |-> TRUE, w |-> C2Out(allow.w, MsgAuthOverridden)]
     ELSE IF quiet.v < 2
       THEN IF yes.v = FALSE
              THEN LET yn == YnPrompt(yes.w, MsgInstallUnverified, FALSE)
                   IN IF ~yn.ret THEN GlobalErrorError(yn.w, MsgNotAuthenticated, <<>>)
                      ELSE [ret |-> TRUE, w |-> yn.w]
              ELSE AuthPromptNoPrompt(yes.w)
       ELSE AuthPromptNoPrompt(quiet.w)

\* AuthPrompt with the quiet threshold off by one
AuthPromptQuietBelow3(w, UntrustedList, PromptUser) ==
  LET w1 == ShowList(w, MsgUnauthList, UntrustedList)
      allow == ConfigFind(w1, KeyAllowUnauthenticated, FALSE)
      quiet == ConfigFind(allow.w, KeyQuiet, 0)
      yes == ConfigFind(quiet.w, KeyAssumeYes, FALSE)
  IN IF allow.v = TRUE THEN [ret |-> TRUE, w |-> C2Out(allow.w, MsgAuthOverridden)]
     ELSE IF PromptUser = FALSE THEN GlobalErrorError(allow.w, MsgNotAuthenticated, <<>>)
     ELSE IF quiet.v < 3
       THEN IF yes.v = FALSE
              THEN LET yn == YnPrompt(yes.w, MsgInstallUnverified, FALSE)
                   IN IF ~yn.ret THEN GlobalErrorError(yn.w, MsgNotAuthenticated, <<>>)
                      ELSE [ret |-> TRUE, w |-> yn.w]
              ELSE AuthPromptNoPrompt(yes.w)
       ELSE AuthPromptNoPrompt(quiet.w)

AuthPrompt(w, UntrustedList, PromptUser) ==
  LET w1 == ShowList(w, MsgUnauthList, UntrustedList)
      allow == ConfigFind(w1, KeyAllowUnauthenticated, FALSE)
      quiet == ConfigFind(allow.w, KeyQuiet, 0)
      yes == ConfigFind(quiet.w, KeyAssumeYes, FALSE)
  IN IF allow.v = TRUE THEN [ret |-> TRUE, w |-> C2Out(allow.w, MsgAuthOverridden)]
     ELSE IF PromptUser = FALSE THEN GlobalErrorError(allow.w, MsgNotAuthenticated, <<>>)
     ELSE IF quiet.v < 2
       THEN IF yes.v = FALSE
              THEN LET yn == YnPrompt(yes.w, MsgInstallUnverified, FALSE)
                   IN IF ~yn.ret THEN GlobalErrorError(yn.w, MsgNotAuthenticated, <<>>)
                      ELSE [ret |-> TRUE, w |-> yn.w]
              ELSE AuthPromptNoPrompt(yes.w)
       ELSE AuthPromptNoPrompt(quiet.w)

IsUntrusted(it) == ~it.Trusted

\* the loop of CheckAuth: the untrusted items' short descriptions, in queue order
UntrustedListOf(items) == ShortDescs(SelectSeq(items, IsUntrusted))

\* CheckAuth without its early return for an empty list
CheckAuthNoEarlyReturn(w, items, PromptUser) ==
  AuthPrompt(w, UntrustedListOf(items), PromptUser)

CheckAuth(w, items, PromptUser) ==
  LET UntrustedList == UntrustedListOf(items)
  IN IF Len(UntrustedList) = 0 THEN [ret |-> TRUE, w |-> w]
     ELSE AuthPrompt(w, UntrustedList, PromptUser)

---------------------------------------------------------------------------
(* ReproducibilityGate *)

MsgUnreproList == "WARNING: The following packages are not reproducible!"
MsgUnreproOverridden == "Unreproducible warning overridden."
MsgNotReproducible == "Some packages are not reproducible"
MsgInstallAnyway == "Install these packages anyway?"
MsgUnreproAndYes == "There were unreproducible packages and -y was used without --allow-unreproducible"
MsgNoUpdate == "Could not update reproducible cache"
MsgNoSourceName == "Could not check source package name"
MsgNoFilter == "Could not filter reproducible status"

\* the force-yes arm of ReproduciblePrompt without its deprecation warning
ReproduciblePromptNoPromptSilent(w) ==
  LET force == ConfigFind(w, KeyForceYes, FALSE)
  IN IF force.v = TRUE
       THEN [ret |-> TRUE, w |-> force.w]
       ELSE GlobalErrorError(force.w, MsgUnreproAndYes, <<>>)

ReproduciblePromptNoPrompt(w) ==
  LET force == ConfigFind(w, KeyForceYes, FALSE)
  IN IF force.v = TRUE
       THEN [ret |-> TRUE, w |-> GlobalErrorWarning(force.w, MsgForceYesDeprecated, <<>>).w]
       ELSE GlobalErrorError(force.w, MsgUnreproAndYes, <<>>)

\* the prompt is suppressed by the quiet level alone
ReproduciblePromptAskingDespiteYes(w, UnreproducibleList, PromptUser) ==
  LET w1 == ShowList(w, MsgUnreproList, UnreproducibleList)
      allow == ConfigFind(w1, KeyAllowUnreproducible, FALSE)
      quiet == ConfigFind(allow.w, KeyQuiet, 0)
  IN IF allow.v = TRUE THEN [ret |-> TRUE, w |-> C2Out(allow.w, MsgUnreproOverridden)]
     ELSE IF PromptUser = FALSE THEN GlobalErrorError(allow.w, MsgNotReproducible, <<>>)
     ELSE IF quiet.v < 2
       THEN LET yn == YnPrompt(quiet.w, MsgInstallAnyway, FALSE)
            IN IF ~yn.ret THEN GlobalErrorError(yn.w, MsgNotReproducible, <<>>)
               ELSE [ret |-> TRUE, w |-> yn.w]
       ELSE ReproduciblePromptNoPrompt(quiet.w)

ReproduciblePrompt(w, UnreproducibleList, PromptUser) ==
  LET w1 == ShowList(w, MsgUnreproList, UnreproducibleList)
      allow == ConfigFind(w1, KeyAllowUnreproducible, FALSE)
      quiet == ConfigFind(allow.w, KeyQuiet, 0)
      yes == ConfigFind(quiet.w, KeyAssumeYes, FALSE)
  IN IF allow.v = TRUE THEN [ret |-> TRUE, w |-> C2Out(allow.w, MsgUnreproOverridden)]
     ELSE IF PromptUser = FALSE THEN GlobalErrorError(allow.w, MsgNotReproducible, <<>>)
     ELSE IF quiet.v < 2
       THEN IF yes.v = FALSE
              THEN LET yn == YnPrompt(yes.w, MsgInstallAnyway, FALSE)
                   IN IF ~yn.ret THEN GlobalErrorError(yn.w, MsgNotReproducible, <<>>)
                      ELSE [ret |-> TRUE, w |-> yn.w]
              ELSE ReproduciblePromptNoPrompt(yes.w)
       ELSE ReproduciblePromptNoPrompt(quiet.w)

\* what a subprocess can do: fail to start, exit with a failure, or succeed
\* having written a first line (empty when it wrote nothing)
PopenFailed == "popen-failed"
ExitFailed == "exit-failed"
ExitOk == "ok"
\* what running one command can come to: it cannot be started, or it exits
\* with a status, having written a first line
ProcOutcomes(lines) ==
  {[res |-> PopenFailed, line |-> "", status |-> <<>>],
   [res |-> ExitFailed, line |-> "", status |-> <<"1">>]}
    \cup {[res |-> ExitOk, line |-> l, status |-> <<"0">>] : l \in lines}

\* what running "first | last" can come to: the shell exits with the status of
\* the last command; a first command that fails has given the last nothing to
\* read, and the last then writes nothing
PipeOutcomes(lines) ==
  {[res |-> PopenFailed, line |-> "", status |-> <<>>]}
    \cup {[res |-> ExitFailed, line |-> "", status |-> <<first, "1">>] :
            first \in {"0", "1"}}
    \cup {[res |-> ExitOk, line |-> l, status |-> <<"0", "0">>] : l \in lines}
    \cup {[res |-> ExitOk, line |-> "", status |-> <<"1", "0">>]}

SourceLine == "src1\n"
RecordLine == "{\"status\":\"reproducible\"}\n"

\* _strstrip: the line without its surrounding white space
StrStrip(line) ==
  CASE line = SourceLine -> "src1"
    [] line = RecordLine -> "{\"status\":\"reproducible\"}"
    [] line = "\n" -> ""
    [] OTHER -> line

CmdUpdate == "/usr/bin/curl --location -z CacheFileName -o CacheFileName Url"
CmdSourcePackage == "apt-cache show BinaryPkg | awk '/Source: / { print $2 }'"
CmdJq == "bunzip2 -c CacheFileName | jq select(suite, package, status, architecture)"

\* GetOutput(output, CmdLine, Debug): run the command; false when it cannot be
\* started or fails, else true with its stripped first line in output
GetOutput(w, CmdLine, params, Debug, outcome) ==
  LET w0 == IF Debug THEN Emit(w, "cerr", CmdLine, params) ELSE w
  IN IF outcome.res = PopenFailed
       THEN [ret |-> FALSE, output |-> "", w |-> Emit(w0, "popen-failed", CmdLine, params)]
       ELSE LET w1 == Emit(Emit(w0, "spawn", CmdLine, params),
                           "exit", outcome.line, outcome.status)
            IN IF outcome.res = ExitFailed
                 THEN [ret |-> FALSE, output |-> "", w |-> w1]
                 ELSE [ret |-> TRUE, output |-> StrStrip(outcome.line), w |-> w1]

NoFrame ==
  [I |-> 0, SrcPkg |-> "", UnreproducibleList |-> <<>>, Debug |-> FALSE,
   Url |-> "", NativeArch |-> "", CacheFileName |-> "", DefaultRelease |-> ""]

Returns(r) ==
  /\ pc' = "done"
  /\ ret' = r.ret
  /\ log' = r.w.log
  /\ reads' = r.w.reads

\* the override is read and taken as unset
ReproducibleOverrideIgnored(w) ==
  [ConfigFind(w, KeyAllowUnreproducible, FALSE) EXCEPT !.v = FALSE]

\* _config->FindB("APT::Get::AllowUnreproducible", false)
ReproducibleOverride(w) == ConfigFind(w, KeyAllowUnreproducible, FALSE)

\* CheckReproducible up to the update command: the override, then the
\* configuration of the check
EnterCheckReproducible(w) ==
  LET allow == ReproducibleOverride(w)
      debug == ConfigFind(allow.w, KeyDebugReproducible, FALSE)
      url == ConfigFind(debug.w, KeyStatusJsonUrl,
                        "https://tests.reproducible-builds.org/reproducible.json.bz2")
      arch == ConfigFind(url.w, KeyArchitecture, "")
      cache == ConfigFind(arch.w, KeyReproducibleCache, "")
      release == ConfigFind(cache.w, KeyDefaultRelease, "unstable")
  IN IF allow.v
       THEN Returns([ret |-> TRUE, w |-> allow.w]) /\ UNCHANGED frame
       ELSE /\ pc' = "update"
            /\ frame' = [NoFrame EXCEPT !.Debug = debug.v, !.Url = url.v,
                                        !.NativeArch = arch.v,
                                        !.CacheFileName = cache.v,
                                        !.DefaultRelease = release.v]
            /\ log' = release.w.log
            /\ reads' = release.w.reads
            /\ UNCHANGED ret

\* a call of CheckReproducible
CallCheckReproducible(PromptUser) ==
  /\ pc = "ready"
  /\ op' = "CheckReproducible"
  /\ args' = [args EXCEPT !.PromptUser = PromptUser]
  /\ EnterCheckReproducible(World(<<>>))
  /\ UNCHANGED <<cfg, Items, fs, Failure, TransientNetworkFailure>>

\* a list of one package is accepted as an empty one is
ReproducibleVerdictAboveOne(w, UnreproducibleList, PromptUser) ==
  IF Len(UnreproducibleList) <= 1 THEN [ret |-> TRUE, w |-> w]
  ELSE ReproduciblePrompt(w, UnreproducibleList, PromptUser)

\* after the loop: accept an empty list, else ReproduciblePrompt
ReproducibleVerdict(w, UnreproducibleList, PromptUser) ==
  IF Len(UnreproducibleList) = 0 THEN [ret |-> TRUE, w |-> w]
  ELSE ReproduciblePrompt(w, UnreproducibleList, PromptUser)

\* the position after item I has been handled: the next item, or the verdict
ReproducibleNext(w, I, UnreproducibleList, answers) ==
  IF I < Len(Items)
    THEN /\ pc' = "source"
         /\ frame' = [frame EXCEPT !.I = I + 1, !.UnreproducibleList = UnreproducibleList]
         /\ log' = w.log
         /\ reads' = w.reads
         /\ UNCHANGED ret
    ELSE /\ Returns(ReproducibleVerdict([w EXCEPT !.stdin = answers],
                                        UnreproducibleList, args.PromptUser))
         /\ frame' = [frame EXCEPT !.UnreproducibleList = UnreproducibleList]

\* "Update local status file"
ReproducibleUpdate(outcome) ==
  /\ pc = "update"
  /\ \E answers \in Answers :
       LET r == GetOutput(World(<<>>), CmdUpdate,
                          <<frame.CacheFileName, frame.Url>>, frame.Debug, outcome)
       IN IF r.ret = FALSE
            THEN Returns(GlobalErrorError(r.w, MsgNoUpdate, <<>>)) /\ UNCHANGED frame
            ELSE ReproducibleNext(r.w, 0, <<>>, answers)
  /\ UNCHANGED <<cfg, Items, fs, Failure, TransientNetworkFailure, op, args>>

\* "Determine source package name" of item I
ReproducibleSourcePackage(outcome) ==
  /\ pc = "source"
  /\ LET BinaryPkg == Items[frame.I].ShortDesc
           w0 == IF frame.Debug
                   THEN Emit(World(<<>>), "cerr", "Checking reproducibility of", <<BinaryPkg>>)
                   ELSE World(<<>>)
           r == GetOutput(w0, CmdSourcePackage, <<BinaryPkg>>, frame.Debug, outcome)
       IN IF r.ret = FALSE
            THEN Returns(GlobalErrorError(r.w, MsgNoSourceName, <<>>)) /\ UNCHANGED frame
            ELSE /\ pc' = "filter"
                 /\ frame' = [frame EXCEPT
                                !.SrcPkg = IF r.output # "" THEN r.output ELSE BinaryPkg]
                 /\ log' = r.w.log
                 /\ reads' = r.w.reads
                 /\ UNCHANGED ret
  /\ UNCHANGED <<cfg, Items, fs, Failure, TransientNetworkFailure, op, args>>

\* the snapshot filter of item I; no output means no matching record
ReproducibleFilter(outcome) ==
  /\ pc = "filter"
  /\ \E answers \in Answers :
       LET BinaryPkg == Items[frame.I].ShortDesc
           r == GetOutput(World(<<>>), CmdJq,
                          <<frame.CacheFileName, frame.DefaultRelease, frame.SrcPkg,
                            frame.NativeArch>>, frame.Debug, outcome)
       IN IF r.ret = FALSE
            THEN Returns(GlobalErrorError(r.w, MsgNoFilter, <<>>)) /\ UNCHANGED frame
            ELSE ReproducibleNext(r.w, frame.I,
                                  IF r.output = ""
                                    THEN Append(frame.UnreproducibleList, BinaryPkg)
                                    ELSE frame.UnreproducibleList,
                                  answers)
  /\ UNCHANGED <<cfg, Items, fs, Failure, TransientNetworkFailure, op, args>>

---------------------------------------------------------------------------
(* RunOrchestrator *)

RunContinue == "Continue"
RunFailed == "Failed"
RunCancelled == "Cancelled"
RunResults == {RunContinue, RunFailed, RunCancelled}

MsgFailedToFetch == "Failed to fetch %s  %s"
TextNotFound == "404  Not Found"

\* what a run can leave of an item: the status and completeness given, an
\* error text when it ended in error
AfterRun(it, st, c) ==
  [it EXCEPT !.Status = st, !.Complete = c,
             !.ErrorText = IF st = StatError THEN TextNotFound ELSE ""]

\* what Fetcher.Run can leave of the queue: every item with any status,
\* complete or not
RunOutcomes(items) ==
  {[i \in 1..Len(items) |-> AfterRun(items[i], o[i][1], o[i][2])] :
     o \in [1..Len(items) -> ItemStates \X BOOLEAN]}

\* the first position in from..to-1 where the text has character c, else to
FindChar(U, from, to, c) ==
  LET at == {i \in from..(to - 1) : U[i] = c}
  IN IF at = {} THEN to ELSE CHOOSE i \in at : \A j \in at : i <= j

\* the last position in from..to-1 where the text has character c, else to
FindLastChar(U, from, to, c) ==
  LET at == {i \in from..(to - 1) : U[i] = c}
  IN IF at = {} THEN to ELSE CHOOSE i \in at : \A j \in at : i >= j

\* ::URI uri(text): the access method up to the first colon, the path from the
\* first single slash, and between them [user[:password]@]host
URIParse(U) ==
  LET End == Len(U) + 1
      Colon == FindChar(U, 1, End, ":")
      Slashes == Colon + 2 < End /\ U[Colon + 1] = "/" /\ U[Colon + 2] = "/"
      First == IF Slashes THEN Colon + 3 ELSE Colon + 1
      SingleSlash == FindChar(U, First, End, "/")
      At == FindLastChar(U, First, SingleSlash, "@")
      SecondColon == FindChar(U, First, At, ":")
      NoUser == At = SingleSlash
  IN [Access |-> SubSeq(U, 1, Colon - 1),
      User |-> IF NoUser THEN <<>> ELSE SubSeq(U, First, SecondColon - 1),
      Password |-> IF NoUser THEN <<>> ELSE SubSeq(U, SecondColon + 1, At - 1),
      Host |-> IF NoUser THEN SubSeq(U, First, SingleSlash - 1)
               ELSE SubSeq(U, At + 1, SingleSlash - 1),
      Path |-> IF SingleSlash < End THEN SubSeq(U, SingleSlash, Len(U)) ELSE <<"/">>]

\* std::string(uri): access://[user[:password]@]host/path, each part only when
\* it is not empty
URIString(uri) ==
  (IF uri.Access # <<>> THEN uri.Access \o <<":">> ELSE <<>>)
    \o (IF uri.Host # <<>>
          THEN (IF uri.Access # <<>> THEN <<"/", "/">> ELSE <<>>)
                 \o (IF uri.User # <<>>
                       THEN uri.User
                              \o (IF uri.Password # <<>> THEN <<":">> \o uri.Password
                                  ELSE <<>>)
                              \o <<"@">>
                       ELSE <<>>)
                 \o uri.Host
          ELSE <<>>)
    \o (IF uri.Path # <<>> /\ Head(uri.Path) # "/" THEN <<"/">> ELSE <<>>)
    \o uri.Path

\* only the password is cleared
ClearPasswordOnly(uri) == [uri EXCEPT !.Password = <<>>]

\* uri.User.clear(); uri.Password.clear();
ClearCredentials(uri) == [uri EXCEPT !.User = <<>>, !.Password = <<>>]

ItemSucceeded(it) == it.Status = StatDone /\ it.Complete = TRUE

ItemIsTransient(it, HasTransient) == HasTransient /\ it.Status = StatIdle

\* the body of the loop for one item; s holds the world and the two flags
ClassifyItem(s, it, HasFailure, HasTransient) ==
  IF ItemSucceeded(it) THEN s
  ELSE IF ItemIsTransient(it, HasTransient) THEN [s EXCEPT !.Transient = TRUE]
  ELSE [s EXCEPT !.w = GlobalErrorError(@, MsgFailedToFetch,
                                        URIString(ClearCredentials(URIParse(it.DescURI)))
                                          \o <<it.ErrorText>>).w,
                 !.Failure = IF HasFailure THEN TRUE ELSE @]

\* the loop leaving at the first item it reports
RECURSIVE ClassifyItemsUntilFailure(_, _, _, _)
ClassifyItemsUntilFailure(s, items, HasFailure, HasTransient) ==
  IF Len(items) = 0 THEN s
  ELSE IF ~ItemSucceeded(Head(items)) /\ ~ItemIsTransient(Head(items), HasTransient)
    THEN ClassifyItem(s, Head(items), HasFailure, HasTransient)
  ELSE ClassifyItemsUntilFailure(ClassifyItem(s, Head(items), HasFailure, HasTransient),
                                 Tail(items), HasFailure, HasTransient)

\* the loop over ItemsBegin()..ItemsEnd()
RECURSIVE ClassifyItems(_, _, _, _)
ClassifyItems(s, items, HasFailure, HasTransient) ==
  IF Len(items) = 0 THEN s
  ELSE ClassifyItems(ClassifyItem(s, Head(items), HasFailure, HasTransient),
                     Tail(items), HasFailure, HasTransient)

\* the run did not simply continue
RunAnyButContinue(res) == res # RunContinue

\* res == pkgAcquire::Failed
RunMechanismFailed(res) == res = RunFailed

\* AcquireRun once Fetcher.Run has returned res and left the queue as items
AcquireRun(w, items, res, HasFailure, HasTransient) ==
  LET s0 == [w |-> w, Failure |-> Failure, Transient |-> TransientNetworkFailure]
  IN IF RunMechanismFailed(res) THEN [ret |-> FALSE, s |-> s0]
     ELSE [ret |-> TRUE, s |-> ClassifyItems(s0, items, HasFailure, HasTransient)]

PulseIntervals == {0, 500000}

CallAcquireRun(PulseInterval, HasFailure, HasTransient) ==
  /\ pc = "ready"
  /\ op' = "AcquireRun"
  /\ \E res \in RunResults, after \in RunOutcomes(Items) :
       LET w0 == Emit(World(<<>>),
                      "run", IF PulseInterval > 0 THEN "Fetcher.Run(PulseInterval)"
                             ELSE "Fetcher.Run()", <<>>)
           r == AcquireRun(w0, after, res, HasFailure, HasTransient)
       IN /\ Items' = after
          /\ args' = [args EXCEPT !.PulseInterval = PulseInterval,
                                  !.HasFailure = HasFailure, !.HasTransient = HasTransient,
                                  !.Failure0 = Failure, !.Transient0 = TransientNetworkFailure,
                                  !.RunResult = res]
          /\ pc' = "done"
          /\ ret' = r.ret
          /\ log' = r.s.w.log
          /\ reads' = r.s.w.reads
          /\ Failure' = r.s.Failure
          /\ TransientNetworkFailure' = r.s.Transient
  /\ UNCHANGED <<cfg, fs, frame>>

---------------------------------------------------------------------------
(* SpaceGuard *)

RAMFS_MAGIC == "0x858458f6"
EXT4_SUPER_MAGIC == "0xEF53"
HAVE_STRUCT_STATFS_F_TYPE == TRUE

StatOk == "ok"
EOVERFLOW == "EOVERFLOW"
ENOENT == "ENOENT"

MsgNoFreeSpaceInfo == "Couldn't determine free space in %s"
MsgNotEnoughSpace == "You don't have enough free space in %s."

\* "only if we are actually going to download", with || for &&
NotDownloadingBoth(print, download) == print = TRUE /\ download = FALSE

\* "only if we are actually going to download"
NotDownloading(print, download) == print = TRUE \/ download = FALSE

\* the block count of the other kind of user
FreeBlocksSwapped(user) == IF user = "" THEN fs.f_bavail ELSE fs.f_bfree

\* the blocks free for the user that downloads
FreeBlocksFor(user) == IF user = "" THEN fs.f_bfree ELSE fs.f_bavail

\* FreeBlocks < (FetchBytes / Buf.f_bsize), in unsigned integers
TooFewBlocks(FreeBlocks, FetchBytes) == FreeBlocks < (FetchBytes \div fs.f_bsize)

\* statfs() fails, or the filesystem is not a ramfs
NotRamfs ==
  fs.statfs # StatOk \/ (HAVE_STRUCT_STATFS_F_TYPE /\ fs.f_type # RAMFS_MAGIC)

CheckFreeSpaceBeforeDownload(w, Dir, FetchBytes) ==
  LET print == ConfigFind(w, KeyPrintURIs, FALSE)
      download == IF print.v = TRUE THEN [v |-> TRUE, w |-> print.w]
                  ELSE ConfigFind(print.w, KeyDownload, TRUE)
  IN IF NotDownloading(print.v, download.v) THEN [ret |-> TRUE, w |-> download.w]
     ELSE LET w1 == Emit(download.w, "statvfs", Dir, <<>>)
          IN IF fs.statvfs # StatOk
               THEN IF fs.statvfs = EOVERFLOW
                      THEN GlobalErrorWarning(w1, MsgNoFreeSpaceInfo, <<"statvfs", Dir>>)
                      ELSE GlobalErrorError(w1, MsgNoFreeSpaceInfo, <<"statvfs", Dir>>)
               ELSE LET user == ConfigFind(w1, KeySandboxUser, "")
                        w2 == Emit(user.w, "statfs", Dir, <<>>)
                    IN IF TooFewBlocks(FreeBlocksFor(user.v), FetchBytes)
                         THEN IF NotRamfs
                                THEN GlobalErrorError(w2, MsgNotEnoughSpace, <<Dir>>)
                                ELSE [ret |-> TRUE, w |-> w2]
                         ELSE [ret |-> TRUE, w |-> user.w]

Dirs == {"/var/cache/apt/archives/", "./"}
FetchSizes == (0..MaxFetchBytes) \cup {40000, 51711, 60000}
BlockSizes == (1..MaxBlockSize) \cup {512}
BlockCounts == (0..MaxBlocks) \cup {100}

CallCheckFreeSpaceBeforeDownload(Dir, FetchBytes) ==
  /\ pc = "ready"
  /\ op' = "CheckFreeSpaceBeforeDownload"
  /\ args' = [args EXCEPT !.Dir = Dir, !.FetchBytes = FetchBytes]
  /\ Returns(CheckFreeSpaceBeforeDownload(World(<<>>), Dir, FetchBytes))
  /\ UNCHANGED <<cfg, Items, fs, Failure, TransientNetworkFailure, frame>>

---------------------------------------------------------------------------
(* Calls *)

NoArgs ==
  [PromptUser |-> FALSE, Dir |-> "", FetchBytes |-> 0, PulseInterval |-> 0,
   HasFailure |-> FALSE, HasTransient |-> FALSE, Failure0 |-> FALSE, Transient0 |-> FALSE,
   RunResult |-> "", Stdin |-> <<>>, Files0 |-> {}]

CallCheckAuth(PromptUser) ==
  /\ pc = "ready"
  /\ op' = "CheckAuth"
  /\ args' = [args EXCEPT !.PromptUser = PromptUser]
  /\ \E answers \in Answers :
       Returns(CheckAuth(World(answers), Items, PromptUser))
  /\ UNCHANGED <<cfg, Items, fs, Failure, TransientNetworkFailure, frame>>

NoFs == [statvfs |-> "ok", f_bsize |-> 1, f_bfree |-> 0, f_bavail |-> 0,
         statfs |-> "ok", f_type |-> ""]

GateConfigs ==
  {[EmptyConfig EXCEPT ![KeyAllowUnauthenticated] = a, ![KeyAllowUnreproducible] = r,
                       ![KeyAssumeYes] = y, ![KeyForceYes] = f, ![KeyQuiet] = q] :
     a \in BoolSettings, r \in BoolSettings, y \in BoolSettings, f \in BoolSettings,
     q \in QuietSettings}

InitGate ==
  /\ cfg \in GateConfigs
  /\ Items \in UNION {Queues(n) : n \in 0..MaxItems}
  /\ fs = NoFs
  /\ Failure = FALSE
  /\ TransientNetworkFailure = FALSE
  /\ log = <<>>
  /\ reads = {}
  /\ frame = NoFrame
  /\ pc = "ready"
  /\ op = "none"
  /\ args = NoArgs
  /\ ret = FALSE

NextGate ==
  \/ \E PromptUser \in BOOLEAN : CallCheckAuth(PromptUser)
  \/ \E PromptUser \in BOOLEAN : CallCheckReproducible(PromptUser)
  \/ \E outcome \in ProcOutcomes({""}) : ReproducibleUpdate(outcome)
  \/ \E outcome \in ProcOutcomes({"", SourceLine}) : ReproducibleSourcePackage(outcome)
  \/ \E outcome \in ProcOutcomes({"", RecordLine}) : ReproducibleFilter(outcome)

SpecGate == InitGate /\ [][NextGate]_vars

\* AuthPrompt called on the short descriptions of the queue
CallAuthPrompt(PromptUser) ==
  /\ pc = "ready"
  /\ op' = "AuthPrompt"
  /\ \E answers \in Answers :
       /\ args' = [args EXCEPT !.PromptUser = PromptUser, !.Stdin = answers]
       /\ Returns(AuthPrompt(World(answers), ShortDescs(Items), PromptUser))
  /\ UNCHANGED <<cfg, Items, fs, Failure, TransientNetworkFailure, frame>>

\* ReproduciblePrompt called on the short descriptions of the queue
CallReproduciblePrompt(PromptUser) ==
  /\ pc = "ready"
  /\ op' = "ReproduciblePrompt"
  /\ \E answers \in Answers :
       /\ args' = [args EXCEPT !.PromptUser = PromptUser, !.Stdin = answers]
       /\ Returns(ReproduciblePrompt(World(answers), ShortDescs(Items), PromptUser))
  /\ UNCHANGED <<cfg, Items, fs, Failure, TransientNetworkFailure, frame>>

\* both prompts on every list that is not empty
InitPrompt ==
  /\ cfg \in GateConfigs
  /\ Items \in {[i \in 1..n |-> QueuedItem(i, FALSE)] : n \in 1..MaxItems}
  /\ fs = NoFs
  /\ Failure = FALSE
  /\ TransientNetworkFailure = FALSE
  /\ log = <<>>
  /\ reads = {}
  /\ frame = NoFrame
  /\ pc = "ready"
  /\ op = "none"
  /\ args = NoArgs
  /\ ret = FALSE

NextPrompt ==
  \/ \E PromptUser \in BOOLEAN : CallAuthPrompt(PromptUser)
  \/ \E PromptUser \in BOOLEAN : CallReproduciblePrompt(PromptUser)

SpecPrompt == InitPrompt /\ [][NextPrompt]_vars

\* the configurations CheckReproducible is called under, the commands of its
\* pipelines seen one by one
ReproConfigs ==
  {[EmptyConfig EXCEPT ![KeyAllowUnreproducible] = r, ![KeyAssumeYes] = y,
                       ![KeyForceYes] = f, ![KeyDebugReproducible] = d,
                       ![KeyDefaultRelease] = s] :
     r \in BoolSettings, y \in BoolSettings, f \in BoolSettings, d \in BoolSettings,
     s \in {UnsetS, [set |-> TRUE, val |-> "stable"]}}

InitRepro ==
  /\ cfg \in ReproConfigs
  /\ Items \in {[i \in 1..n |-> QueuedItem(i, TRUE)] : n \in 0..MaxItems}
  /\ fs = NoFs
  /\ Failure = FALSE
  /\ TransientNetworkFailure = FALSE
  /\ log = <<>>
  /\ reads = {}
  /\ frame = NoFrame
  /\ pc = "ready"
  /\ op = "none"
  /\ args = NoArgs
  /\ ret = FALSE

NextRepro ==
  \/ \E PromptUser \in BOOLEAN : CallCheckReproducible(PromptUser)
  \/ \E outcome \in ProcOutcomes({""}) : ReproducibleUpdate(outcome)
  \/ \E outcome \in PipeOutcomes({"", SourceLine}) : ReproducibleSourcePackage(outcome)
  \/ \E outcome \in PipeOutcomes({"", RecordLine}) : ReproducibleFilter(outcome)

SpecRepro == InitRepro /\ [][NextRepro]_vars

\* the answers of statvfs() and statfs(); a failed call fills in nothing
FsAnswers ==
  {[NoFs EXCEPT !.statvfs = e] : e \in {EOVERFLOW, ENOENT}}
    \cup {[statvfs |-> StatOk, f_bsize |-> bs, f_bfree |-> bf, f_bavail |-> ba,
           statfs |-> "failed", f_type |-> ""] :
            bs \in BlockSizes, bf \in BlockCounts, ba \in BlockCounts}
    \cup {[statvfs |-> StatOk, f_bsize |-> bs, f_bfree |-> bf, f_bavail |-> ba,
           statfs |-> StatOk, f_type |-> t] :
            bs \in BlockSizes, bf \in BlockCounts, ba \in BlockCounts,
            t \in {RAMFS_MAGIC, EXT4_SUPER_MAGIC}}

SpaceConfigs ==
  {[EmptyConfig EXCEPT ![KeyPrintURIs] = p, ![KeyDownload] = d, ![KeySandboxUser] = u] :
     p \in BoolSettings, d \in BoolSettings, u \in UserSettings}

InitSpace ==
  /\ cfg \in SpaceConfigs
  /\ Items = <<>>
  /\ fs \in FsAnswers
  /\ Failure = FALSE
  /\ TransientNetworkFailure = FALSE
  /\ log = <<>>
  /\ reads = {}
  /\ frame = NoFrame
  /\ pc = "ready"
  /\ op = "none"
  /\ args = NoArgs
  /\ ret = FALSE

NextSpace ==
  \E Dir \in Dirs, FetchBytes \in FetchSizes : CallCheckFreeSpaceBeforeDownload(Dir, FetchBytes)

SpecSpace == InitSpace /\ [][NextSpace]_vars

InitRun ==
  /\ cfg = EmptyConfig
  /\ Items \in {[i \in 1..n |-> QueuedItem(i, TRUE)] : n \in 0..MaxRunItems}
  /\ fs = NoFs
  /\ Failure \in BOOLEAN
  /\ TransientNetworkFailure \in BOOLEAN
  /\ log = <<>>
  /\ reads = {}
  /\ frame = NoFrame
  /\ pc = "ready"
  /\ op = "none"
  /\ args = NoArgs
  /\ ret = FALSE

NextRun ==
  \E PulseInterval \in PulseIntervals, HasFailure \in BOOLEAN, HasTransient \in BOOLEAN :
    CallAcquireRun(PulseInterval, HasFailure, HasTransient)

SpecRun == InitRun /\ [][NextRun]_vars

\* queues whose items' URIs carry any of the user-information parts
QueuesWithUserInfo(n) ==
  {[i \in 1..n |-> [QueuedItem(i, TRUE) EXCEPT !.DescURI = URIText(u[i], i)]] :
     u \in [1..n -> UserInfos]}

InitRunURI ==
  /\ cfg = EmptyConfig
  /\ Items \in UNION {QueuesWithUserInfo(n) : n \in 0..MaxRunItems}
  /\ fs = NoFs
  /\ Failure = FALSE
  /\ TransientNetworkFailure = FALSE
  /\ log = <<>>
  /\ reads = {}
  /\ frame = NoFrame
  /\ pc = "ready"
  /\ op = "none"
  /\ args = NoArgs
  /\ ret = FALSE

NextRunURI ==
  \E HasFailure \in BOOLEAN, HasTransient \in BOOLEAN : CallAcquireRun(0, HasFailure, HasTransient)

SpecRunURI == InitRunURI /\ [][NextRunURI]_vars


---------------------------------------------------------------------------
(* AutoCleaner *)

MsgDel == "Del %s %s [%sB]"
MsgUnableToLock == "Unable to lock the download directory"
MsgUnableToRead == "Unable to read %s"

ArchiveDir == "/var/cache/apt/archives/"

\* flCombine(archivedir, "partial/")
PartialDir == "/var/cache/apt/archives/partial/"

\* the versions the cache can still download
CacheVersions == {[Pkg |-> PkgNames[k], Ver |-> "2.0"] : k \in 1..MaxArchives}

\* an archive on disk: k-th of its directory, of a package and a version
Archive(Dir, k, Ver) ==
  [Dir |-> Dir, K |-> k, Pkg |-> PkgNames[k], Ver |-> Ver,
   Size |-> IF Dir = ArchiveDir THEN 512 ELSE 20480]

\* what the archive directory and partial/ can hold
ArchiveSets ==
  {{Archive(p[1], p[2], v[p]) :
      p \in {q \in {ArchiveDir, PartialDir} \X (1..MaxArchives) : v[q] # ""}} :
     v \in [{ArchiveDir, PartialDir} \X (1..MaxArchives) -> {"", "1.0", "2.0"}]}

\* SizeToStr: the size in units of 1000, without decimals below 10000 of a
\* unit and with one decimal below 100 of the next
SizeToStr(Size) ==
  IF Size < 10000 THEN ToString(Size) \o " "
  ELSE LET tenths == (Size + 50) \div 100
       IN ToString(tenths \div 10) \o "." \o ToString(tenths % 10) \o " k"

\* the file is removed whatever the mode
EraseAlways(s, File) ==
  LET w1 == Emit(s.w, "c1out", MsgDel, <<File.Pkg, File.Ver, SizeToStr(File.Size)>>)
      sim == ConfigFind(w1, KeySimulate, FALSE)
  IN [w |-> sim.w, files |-> s.files \ {File}]

\* LogCleaner::Erase: the line, and RemoveFile unless simulating
Erase(s, File) ==
  LET w1 == Emit(s.w, "c1out", MsgDel, <<File.Pkg, File.Ver, SizeToStr(File.Size)>>)
      sim == ConfigFind(w1, KeySimulate, FALSE)
  IN [w |-> sim.w, files |-> IF sim.v = FALSE THEN s.files \ {File} ELSE s.files]

\* pkgArchiveCleaner::Go over the files k, k+1, ... of a directory: Erase for
\* each whose version the cache cannot download
RECURSIVE GoFrom(_, _, _)
GoFrom(s, Dir, k) ==
  IF k > MaxArchives THEN s
  ELSE LET F == {f \in s.files : /\ f.Dir = Dir /\ f.K = k
                                 /\ [Pkg |-> f.Pkg, Ver |-> f.Ver] \notin CacheVersions}
       IN GoFrom(IF F = {} THEN s ELSE Erase(s, CHOOSE f \in F : TRUE), Dir, k + 1)

\* pkgArchiveCleaner::Go(Dir, Cache): false with an error when the directory
\* cannot be read, else every file of it examined
Go(s, Dir, readable) ==
  LET s1 == [s EXCEPT !.w = Emit(s.w, "Go", Dir, <<>>)]
  IN IF readable THEN [ret |-> TRUE, s |-> GoFrom(s1, Dir, 1)]
     ELSE [ret |-> FALSE,
           s |-> [s1 EXCEPT !.w = GlobalErrorError(s1.w, MsgUnableToRead, <<Dir>>).w]]

\* the archive directory as DoAutoClean finds it
Disks ==
  {[Exists |-> e, LockedBy |-> l, Files |-> IF e THEN f ELSE {}] :
     e \in BOOLEAN, l \in {"none", "other"}, f \in ArchiveSets}

\* the lock outlives the call
LeaveDoAutoCleanLocked(r, files) ==
  /\ Returns(r)
  /\ fs' = [fs EXCEPT !.Files = files]
  /\ frame' = [frame EXCEPT !.Cache = "closed"]

\* return from DoAutoClean: Cache and Lock go out of scope, in that order
LeaveDoAutoClean(r, files) ==
  /\ Returns(r)
  /\ fs' = [fs EXCEPT !.Files = files,
                      !.LockedBy = IF @ = "self" THEN "none" ELSE @]
  /\ frame' = [frame EXCEPT !.Cache = "closed", !.lock_fd = -1]

\* DoAutoClean up to the opening of the cache: the directory, then the lock
CallDoAutoClean ==
  /\ pc = "ready"
  /\ op' = "DoAutoClean"
  /\ args' = [args EXCEPT !.Files0 = fs.Files]
  /\ LET archivedir == ConfigFind(World(<<>>), KeyArchives, ArchiveDir)
         nolock == ConfigFind(archivedir.w, KeyNoLocking, FALSE)
     IN IF fs.Exists = FALSE
          THEN /\ Returns([ret |-> TRUE, w |-> archivedir.w])
               /\ UNCHANGED <<fs, frame>>
          ELSE IF nolock.v = FALSE
            THEN IF fs.LockedBy = "other"
                   THEN /\ Returns(GlobalErrorError(
                                     Emit(nolock.w, "GetLock", "failed", <<ArchiveDir, "lock">>),
                                     MsgUnableToLock, <<>>))
                        /\ UNCHANGED <<fs, frame>>
                   ELSE /\ pc' = "open"
                        /\ fs' = [fs EXCEPT !.LockedBy = "self"]
                        /\ frame' = [frame EXCEPT !.lock_fd = 3]
                        /\ log' = Emit(nolock.w, "GetLock", "ok", <<ArchiveDir, "lock">>).log
                        /\ reads' = nolock.w.reads
                        /\ UNCHANGED ret
            ELSE /\ pc' = "open"
                 /\ log' = nolock.w.log
                 /\ reads' = nolock.w.reads
                 /\ UNCHANGED <<fs, frame, ret>>
  /\ UNCHANGED <<cfg, Items, Failure, TransientNetworkFailure>>

\* Cache.Open(false)
CacheOpen(opened) ==
  /\ pc = "open"
  /\ IF opened
       THEN /\ pc' = "primary"
            /\ frame' = [frame EXCEPT !.Cache = "open"]
            /\ log' = Emit(World(<<>>), "CacheOpen", "ok", <<>>).log
            /\ UNCHANGED <<fs, reads, ret>>
       ELSE LeaveDoAutoClean([ret |-> FALSE,
                              w |-> Emit(World(<<>>), "CacheOpen", "failed", <<>>)],
                             fs.Files)
  /\ UNCHANGED <<cfg, Items, Failure, TransientNetworkFailure, op, args>>

\* Cleaner.Go(archivedir, *Cache) && ...
CleanArchives(readable) ==
  /\ pc = "primary"
  /\ LET r == Go([w |-> World(<<>>), files |-> fs.Files], ArchiveDir, readable)
     IN IF r.ret
          THEN /\ pc' = "partial"
               /\ fs' = [fs EXCEPT !.Files = r.s.files]
               /\ log' = r.s.w.log
               /\ reads' = r.s.w.reads
               /\ UNCHANGED <<frame, ret>>
          ELSE LeaveDoAutoClean([ret |-> FALSE, w |-> r.s.w], r.s.files)
  /\ UNCHANGED <<cfg, Items, Failure, TransientNetworkFailure, op, args>>

\* ... && Cleaner.Go(flCombine(archivedir, "partial/"), *Cache)
CleanPartial(readable) ==
  /\ pc = "partial"
  /\ LET r == Go([w |-> World(<<>>), files |-> fs.Files], PartialDir, readable)
     IN LeaveDoAutoClean([ret |-> r.ret, w |-> r.s.w], r.s.files)
  /\ UNCHANGED <<cfg, Items, Failure, TransientNetworkFailure, op, args>>

CleanConfigs ==
  {[EmptyConfig EXCEPT ![KeySimulate] = sim, ![KeyNoLocking] = nolock] :
     sim \in BoolSettings, nolock \in BoolSettings}

InitClean ==
  /\ cfg \in CleanConfigs
  /\ Items = <<>>
  /\ fs \in Disks
  /\ Failure = FALSE
  /\ TransientNetworkFailure = FALSE
  /\ log = <<>>
  /\ reads = {}
  /\ frame = [lock_fd |-> -1, Cache |-> "closed"]
  /\ pc = "ready"
  /\ op = "none"
  /\ args = NoArgs
  /\ ret = FALSE

NextClean ==
  \/ CallDoAutoClean
  \/ \E opened \in BOOLEAN : CacheOpen(opened)
  \/ \E readable \in BOOLEAN : CleanArchives(readable)
  \/ \E readable \in BOOLEAN : CleanPartial(readable)

SpecClean == InitClean /\ [][NextClean]_vars

---------------------------------------------------------------------------
(* DoDownload *)

MsgCantFindSource == "Can't find a source to download version '%s' of '%s'"

\* _error->PendingError()
PendingError(w) == \E i \in 1..Len(w.log) : w.log[i].k = "Error"

\* --print-uris: a line for every item of the queue
PrintUris(w, items) ==
  [w EXCEPT !.log = @ \o [i \in 1..Len(items) |->
                            Event("cout", "'%s' %s %s %s",
                                  items[i].DescURI \o <<items[i].ShortDesc>>)]]

\* the run failed, or nothing else
DoDownloadResultOfRunOnly(r) == r.ret

\* if (AcquireRun(Fetcher, 0, &Failed, NULL) == false) return false; ...
\* return Failed == false;
DoDownloadResult(r) == r.ret /\ r.s.Failure = FALSE

\* DoDownload up to the call of CheckReproducible: the cache, the versions
\* named, the queue (of items fetched from remote sources), --print-uris,
\* pending errors and CheckAuth
CallDoDownload(opened, pending) ==
  /\ pc = "ready"
  /\ args' = [args EXCEPT !.PromptUser = FALSE, !.HasFailure = TRUE,
                          !.HasTransient = FALSE, !.Failure0 = Failure,
                          !.Transient0 = TransientNetworkFailure]
  /\ IF ~opened \/ Len(Items) = 0
       THEN /\ op' = "DoDownload"
            /\ Returns([ret |-> FALSE,
                        w |-> Emit(World(<<>>), "CacheOpen",
                                   IF opened THEN "ok" ELSE "failed", <<>>)])
            /\ UNCHANGED <<cfg, frame>>
       ELSE LET w0 == Emit(World(<<>>), "CacheOpen", "ok", <<>>)
                w1 == IF pending
                        THEN GlobalErrorError(w0, MsgCantFindSource, <<"2.0", PkgNames[1]>>).w
                        ELSE w0
                print == ConfigFind(w1, KeyPrintURIs, FALSE)
                a == CheckAuth(Emit(print.w, "call", "CheckAuth", <<"false">>), Items, FALSE)
                a1 == Emit(a.w, "return", "CheckAuth", <<ToString(a.ret)>>)
            IN /\ cfg' = [cfg EXCEPT ![KeyArchives] = [set |-> TRUE, val |-> "cwd/"]]
               /\ IF print.v = TRUE
                    THEN /\ op' = "DoDownload"
                         /\ Returns([ret |-> TRUE, w |-> PrintUris(print.w, Items)])
                         /\ UNCHANGED frame
                    ELSE IF PendingError(print.w)
                      THEN /\ op' = "DoDownload"
                           /\ Returns([ret |-> FALSE, w |-> print.w])
                           /\ UNCHANGED frame
                      ELSE IF a.ret = FALSE
                        THEN /\ op' = "DoDownload"
                             /\ Returns([ret |-> FALSE, w |-> a1])
                             /\ UNCHANGED frame
                        ELSE /\ op' = "DoDownload/CheckReproducible"
                             /\ EnterCheckReproducible(
                                  Emit(a1, "call", "CheckReproducible", <<"false">>))
  /\ UNCHANGED <<Items, fs, Failure, TransientNetworkFailure>>

\* DoDownload from the return of CheckReproducible: AcquireRun, and the result
DoDownloadRun ==
  /\ pc = "done"
  /\ op = "DoDownload/CheckReproducible"
  /\ op' = "DoDownload"
  /\ LET w0 == Emit(World(<<>>), "return", "CheckReproducible", <<ToString(ret)>>)
     IN IF ret = FALSE
          THEN /\ Returns([ret |-> FALSE, w |-> w0])
               /\ UNCHANGED <<Items, Failure, TransientNetworkFailure, args>>
          ELSE \E res \in RunResults, after \in RunOutcomes(Items) :
                 LET w1 == Emit(Emit(w0, "call", "AcquireRun", <<"0", "&Failed", "NULL">>),
                                "run", "Fetcher.Run()", <<>>)
                     r == AcquireRun(w1, after, res, TRUE, FALSE)
                 IN /\ Items' = after
                    /\ args' = [args EXCEPT !.RunResult = res]
                    /\ Returns([ret |-> DoDownloadResult(r), w |-> r.s.w])
                    /\ Failure' = r.s.Failure
                    /\ TransientNetworkFailure' = r.s.Transient
  /\ UNCHANGED <<cfg, fs, frame>>

DownloadConfigs ==
  {[EmptyConfig EXCEPT ![KeyPrintURIs] = p, ![KeyAllowUnauthenticated] = a,
                       ![KeyAllowUnreproducible] = r] :
     p \in BoolSettings, a \in {UnsetB, [set |-> TRUE, val |-> TRUE]},
     r \in {UnsetB, [set |-> TRUE, val |-> TRUE]}}

InitDownload ==
  /\ cfg \in DownloadConfigs
  /\ Items \in UNION {Queues(n) : n \in 0..MaxDownloads}
  /\ fs = NoFs
  /\ Failure = FALSE
  /\ TransientNetworkFailure = FALSE
  /\ log = <<>>
  /\ reads = {}
  /\ frame = NoFrame
  /\ pc = "ready"
  /\ op = "none"
  /\ args = NoArgs
  /\ ret = FALSE

NextDownload ==
  \/ \E opened \in BOOLEAN, pending \in BOOLEAN : CallDoDownload(opened, pending)
  \/ \E outcome \in ProcOutcomes({""}) : ReproducibleUpdate(outcome)
  \/ \E outcome \in ProcOutcomes({"", SourceLine}) : ReproducibleSourcePackage(outcome)
  \/ \E outcome \in ProcOutcomes({"", RecordLine}) : ReproducibleFilter(outcome)
  \/ DoDownloadRun

SpecDownload == InitDownload /\ [][NextDownload]_vars

---------------------------------------------------------------------------
(* What the claims speak of *)

\* the value a key has for the program: its setting, or the default it is read with
Setting(key, Default) == IF cfg[key].set THEN cfg[key].val ELSE Default

AllowUnauthenticated == Setting(KeyAllowUnauthenticated, FALSE)
AllowUnreproducible == Setting(KeyAllowUnreproducible, FALSE)
AssumeYes == Setting(KeyAssumeYes, FALSE)
ForceYes == Setting(KeyForceYes, FALSE)
Quiet == Setting(KeyQuiet, 0)

Returned(f) == pc = "done" /\ op = f
AllTrusted == \A i \in 1..Len(Items) : Items[i].Trusted
Prompted == Logged("prompt") # {}
AnsweredYes == LoggedText("answer", "yes")
ErrorRecorded == Logged("Error") # {}
WarnedForceYes == LoggedText("Warning", MsgForceYesDeprecated)

\* the list a gate that returned had to decide about is not empty
GateHadList ==
  \/ Returned("CheckAuth") /\ ~AllTrusted
  \/ Returned("CheckReproducible") /\ Len(frame.UnreproducibleList) > 0

\* the override of the gate that returned
GateOverride ==
  IF op = "CheckAuth" THEN AllowUnauthenticated ELSE AllowUnreproducible

\* C1: CheckAuth on a queue whose items are all trusted (the empty queue
\* included) returns true, having read no configuration key, shown no prompt
\* and recorded no error, whatever PromptUser and the configuration are.
C1_TrustedQueueAccepted ==
  (Returned("CheckAuth") /\ AllTrusted)
    => (ret = TRUE /\ reads = {} /\ ~Prompted /\ ~ErrorRecorded)

C1_Witness ==
  /\ Returned("CheckAuth") /\ AllTrusted /\ Len(Items) = 2
  /\ args.PromptUser = FALSE /\ ~AllowUnauthenticated /\ ret = TRUE

\* C2: with an untrusted item in the queue CheckAuth decides by five steps in
\* order: override set => accept; else PromptUser false => deny; else quiet < 2
\* and assume-yes unset => prompt, accept iff the answer is yes; else force-yes
\* set => accept; else deny.  The prompt appears in the third case only.
C2_FiveStepDecision ==
  (Returned("CheckAuth") /\ ~AllTrusted)
    => IF AllowUnauthenticated THEN ret = TRUE /\ ~Prompted
       ELSE IF args.PromptUser = FALSE THEN ret = FALSE /\ ~Prompted
       ELSE IF Quiet < 2 /\ ~AssumeYes
         THEN Cardinality(Logged("prompt")) = 1 /\ ret = AnsweredYes
       ELSE IF ForceYes THEN ret = TRUE /\ ~Prompted
       ELSE ret = FALSE /\ ~Prompted

C2_Witness ==
  /\ Returned("CheckAuth") /\ ~AllTrusted
  /\ ~AllowUnauthenticated /\ args.PromptUser /\ Quiet < 2 /\ ~AssumeYes /\ ForceYes
  /\ Prompted /\ ~AnsweredYes /\ ret = FALSE

\* C3 as stated: quiet >= 2 with neither assume-yes nor force-yes set makes
\* CheckAuth deny a queue with an untrusted item, whatever the other inputs are.
C3_QuietDeniesWhateverElse ==
  (Returned("CheckAuth") /\ ~AllTrusted /\ Quiet >= 2 /\ ~AssumeYes /\ ~ForceYes)
    => ret = FALSE

\* C3 amended: quiet >= 2 with neither assume-yes nor force-yes set makes
\* CheckAuth deny a queue with an untrusted item unless allow-unauthenticated
\* is set, whatever PromptUser and the user's answer are.
C3_QuietDeniesUnlessOverridden ==
  (Returned("CheckAuth") /\ ~AllTrusted /\ Quiet >= 2 /\ ~AssumeYes /\ ~ForceYes
     /\ ~AllowUnauthenticated)
    => (ret = FALSE /\ ~Prompted)

C3_Witness ==
  /\ Returned("CheckAuth") /\ ~AllTrusted /\ Quiet = 2 /\ ~AssumeYes /\ ~ForceYes
  /\ ~AllowUnauthenticated /\ args.PromptUser /\ ret = FALSE
  /\ LoggedText("Error", MsgUnauthAndYes)

\* a gate accepted in the force-yes arm: no override, prompting allowed, no
\* prompt due, force-yes set
AcceptedByForceYes ==
  /\ GateHadList /\ ret = TRUE
  /\ ~GateOverride /\ args.PromptUser /\ ~(Quiet < 2 /\ ~AssumeYes) /\ ForceYes

\* C4 as stated: with assume-yes or force-yes set neither gate shows the
\* yes/no prompt, and a gate that accepts because force-yes is set has emitted
\* the deprecation warning.
C4_YesOrForceSuppressPrompt ==
  /\ (pc = "done" /\ (AssumeYes \/ ForceYes)) => ~Prompted
  /\ AcceptedByForceYes => WarnedForceYes

\* C4 amended: with assume-yes set neither gate shows the yes/no prompt
\* (force-yes without assume-yes does not suppress it while quiet < 2), and a
\* gate that accepts because force-yes is set has emitted the deprecation
\* warning.
C4_AssumeYesSuppressesPrompt ==
  /\ (pc = "done" /\ AssumeYes) => ~Prompted
  /\ AcceptedByForceYes => WarnedForceYes

C4_Witness ==
  /\ Returned("CheckReproducible") /\ AcceptedByForceYes /\ AssumeYes
  /\ Len(frame.UnreproducibleList) = 2 /\ ~Prompted /\ WarnedForceYes

PrintURIs == Setting(KeyPrintURIs, FALSE)
Download == Setting(KeyDownload, TRUE)
SandboxUser == Setting(KeySandboxUser, "")

SpaceChecked == Returned("CheckFreeSpaceBeforeDownload")
DownloadingActive == ~PrintURIs /\ Download
WarningRecorded == Logged("Warning") # {}
FilesystemQueried == Logged("statvfs") # {} \/ Logged("statfs") # {}
RequiredBlocks == args.FetchBytes \div fs.f_bsize
AvailableBlocks == IF SandboxUser = "" THEN fs.f_bfree ELSE fs.f_bavail
MemoryBacked == fs.f_type = RAMFS_MAGIC

\* C5: when statvfs fails with EOVERFLOW the space check records a warning
\* only and returns true; any other statvfs failure returns false with an
\* error recorded.
C5_OverflowProceeds ==
  (SpaceChecked /\ DownloadingActive /\ fs.statvfs # StatOk)
    => IF fs.statvfs = EOVERFLOW
         THEN ret = TRUE /\ WarningRecorded /\ ~ErrorRecorded
         ELSE ret = FALSE /\ ErrorRecorded

\* C6: with downloading active and the filesystem queries succeeding, the
\* space check denies iff the required blocks (bytes divided by the block size,
\* rounded down: 40000/512 = 78, 60000/512 = 117) exceed the available blocks
\* and the filesystem is not memory-backed; the available blocks are f_bfree
\* when no sandbox user is configured and f_bavail otherwise.
C6_DeniesIffTooFewBlocks ==
  /\ 40000 \div 512 = 78 /\ 60000 \div 512 = 117
  /\ (SpaceChecked /\ DownloadingActive /\ fs.statvfs = StatOk /\ fs.statfs = StatOk)
       => /\ (ret = FALSE) <=> (RequiredBlocks > AvailableBlocks /\ ~MemoryBacked)
          /\ MemoryBacked => ret = TRUE
          /\ (fs.f_bsize = 512 /\ AvailableBlocks = 100 /\ args.FetchBytes = 40000)
               => ret = TRUE
          /\ (fs.f_bsize = 512 /\ AvailableBlocks = 100 /\ args.FetchBytes = 60000)
               => (ret = MemoryBacked)

C6_Witness ==
  /\ SpaceChecked /\ DownloadingActive /\ fs.statvfs = StatOk /\ fs.statfs = StatOk
  /\ SandboxUser = "_apt" /\ fs.f_bsize = 512 /\ fs.f_bavail = 100 /\ fs.f_bfree = 0
  /\ args.FetchBytes = 40000 /\ ~MemoryBacked /\ ret = TRUE

\* C7: whenever the space check accepts with downloading active, statvfs
\* succeeding and a filesystem that is not memory-backed, the required bytes
\* are at most the available blocks times the block size.
C7_AcceptedBytesFit ==
  (SpaceChecked /\ DownloadingActive /\ fs.statvfs = StatOk /\ ~MemoryBacked /\ ret = TRUE)
    => args.FetchBytes <= AvailableBlocks * fs.f_bsize

\* C8: with print-uris set or downloading disabled the space check returns
\* true for every directory and byte count, without a statvfs or statfs call
\* and without recording an error or a warning.
C8_SkippedWhenNotDownloading ==
  (SpaceChecked /\ (PrintURIs \/ ~Download))
    => (ret = TRUE /\ ~FilesystemQueried /\ ~ErrorRecorded /\ ~WarningRecorded)

C8_Witness ==
  /\ SpaceChecked /\ PrintURIs /\ Download /\ ret = TRUE
  /\ fs.statvfs = StatOk /\ fs.statfs = StatOk /\ ~MemoryBacked
  /\ fs.f_bsize = 512 /\ AvailableBlocks = 0 /\ args.FetchBytes = 60000

RunReturned == Returned("AcquireRun")
Succeeded(i) == Items[i].Status = StatDone /\ Items[i].Complete
TransientItem(i) == ~Succeeded(i) /\ Items[i].Status = StatIdle /\ args.HasTransient
HardFailure(i) == ~Succeeded(i) /\ ~(Items[i].Status = StatIdle /\ args.HasTransient)
HardFailures == {i \in 1..Len(Items) : HardFailure(i)}

\* C9: AcquireRun returns false iff Fetcher.Run reports Failed, and then
\* nothing is classified: no error is reported and both of the caller's flags
\* keep their values.  Otherwise it returns true, whatever the items ended as.
C9_FalseIffRunFailed ==
  RunReturned
    => /\ (ret = FALSE) <=> (args.RunResult = RunFailed)
       /\ (args.RunResult = RunFailed)
            => /\ ~ErrorRecorded
               /\ Failure = args.Failure0
               /\ TransientNetworkFailure = args.Transient0

C9_Witness ==
  /\ RunReturned /\ args.RunResult = RunFailed /\ ret = FALSE
  /\ args.HasFailure /\ args.HasTransient /\ ~args.Failure0 /\ ~args.Transient0
  /\ Len(Items) = 2 /\ Items[1].Status = StatError /\ Items[2].Status = StatIdle

\* C10: after a run that did not fail every item is classified: the transient
\* flag ends true iff it was true before, or it was supplied and some item that
\* is not Done-and-complete is Idle; the failure flag ends true iff it was true
\* before, or it was supplied and some item is neither Done-and-complete nor
\* Idle-with-a-transient-flag; one error is reported per such item, and the
\* call returns true.
C10_EveryItemClassified ==
  (RunReturned /\ args.RunResult # RunFailed)
    => /\ ret = TRUE
       /\ TransientNetworkFailure
            <=> (args.Transient0 \/ \E i \in 1..Len(Items) : TransientItem(i))
       /\ Failure <=> (args.Failure0 \/ (args.HasFailure /\ HardFailures # {}))
       /\ Cardinality(Logged("Error")) = Cardinality(HardFailures)

C10_Witness ==
  /\ RunReturned /\ args.RunResult = RunContinue /\ ret = TRUE
  /\ args.HasFailure /\ args.HasTransient /\ ~args.Failure0 /\ ~args.Transient0
  /\ Len(Items) = 2 /\ Items[1].Status = StatError /\ Items[2].Status = StatIdle
  /\ Failure /\ TransientNetworkFailure

\* the errors reported, in order
ErrorsLogged == SelectSeq(log, LAMBDA e : e.k = "Error")

\* the hard failures, in queue order
HardFailureItems ==
  SelectSeq(Items, LAMBDA it : ~ItemSucceeded(it)
                               /\ ~(it.Status = StatIdle /\ args.HasTransient))

\* the item fetched from the same place with no user information in its URI
WithoutUserInfo(it) ==
  [it EXCEPT !.DescURI = <<"http", ":", "/", "/", "deb.example.org", "/", it.ShortDesc>>]

\* what the call leaves when started as it was on the given queue
RunLeaves(items) ==
  LET r == AcquireRun([log |-> <<log[1]>>, reads |-> {}, stdin |-> <<>>], items,
                      args.RunResult, args.HasFailure, args.HasTransient)
  IN [ret |-> r.ret, log |-> r.s.w.log, Failure |-> r.s.Failure,
      Transient |-> r.s.Transient]

\* C11: each hard failure is reported with the item's URI without user name
\* and password, followed by its error text, and sets the failure flag (when
\* one is supplied); what is reported and the flags are those of the same
\* queue with no user information in any URI, and no user name or password is
\* part of any message.
C11_FailuresReportedWithoutCredentials ==
  (RunReturned /\ args.RunResult # RunFailed)
    => /\ Len(ErrorsLogged) = Len(HardFailureItems)
       /\ \A j \in 1..Len(HardFailureItems) :
            /\ ErrorsLogged[j].t = MsgFailedToFetch
            /\ ErrorsLogged[j].l
                 = WithoutUserInfo(HardFailureItems[j]).DescURI
                     \o <<HardFailureItems[j].ErrorText>>
            /\ \A k \in 1..Len(ErrorsLogged[j].l) :
                 ErrorsLogged[j].l[k] \notin {"user", "secret"}
       /\ (Len(HardFailureItems) > 0 /\ args.HasFailure) => Failure
       /\ RunLeaves([i \in 1..Len(Items) |-> WithoutUserInfo(Items[i])])
            = [ret |-> ret, log |-> log, Failure |-> Failure,
               Transient |-> TransientNetworkFailure]

C11_Witness ==
  /\ RunReturned /\ args.RunResult = RunContinue /\ args.HasFailure /\ Failure
  /\ Len(Items) = 2 /\ Items[1].Status = StatError /\ Items[2].Status = StatFetching
  /\ Items[1].DescURI = ItemURI(1)
  /\ Items[2].DescURI = URIText(<<"user", "@">>, 2)
  /\ Len(ErrorsLogged) = 2 /\ ErrorsLogged[1].l[Len(ErrorsLogged[1].l)] = TextNotFound

\* C12: with the override set, CheckReproducible accepts at once, for every
\* queue and PromptUser: no command is started or spawned, nothing is listed
\* or asked, no error is recorded, and only the override has been read.
C12_OverrideAcceptsSilently ==
  (op = "CheckReproducible" /\ AllowUnreproducible)
    => /\ pc = "done" /\ ret
       /\ log = <<>>
       /\ frame = NoFrame
       /\ reads = {KeyAllowUnreproducible}

C12_Witness ==
  /\ Returned("CheckReproducible") /\ AllowUnreproducible /\ ret
  /\ Len(Items) = 2 /\ ~AllTrusted /\ args.PromptUser
  /\ Quiet = 2 /\ ~AssumeYes

\* the commands CheckReproducible has started, by position in the log
Spawned(CmdLine) == {i \in Logged("spawn") : log[i].t = CmdLine}

\* a command could not be started, or a command that ran exited with a status
\* other than 0
SubprocessFailed ==
  \/ Logged("popen-failed") # {}
  \/ \E i \in Logged("exit") : \E j \in 1..Len(log[i].l) : log[i].l[j] # "0"

\* C13: with the override unset the feed is refreshed once, before any lookup,
\* and a failure of the refresh or of a command of an item's lookup or filter
\* makes the check deny with an error at once: nothing is listed or asked and
\* the item is not put on the list of unreproducible packages.
C13_SubprocessFailureDenies ==
  (op = "CheckReproducible" /\ ~AllowUnreproducible)
    => /\ Cardinality(Spawned(CmdUpdate)) <= 1
       /\ \A i \in Spawned(CmdSourcePackage) \cup Spawned(CmdJq) :
            \E u \in Spawned(CmdUpdate) : u < i
       /\ SubprocessFailed
            => /\ pc = "done" /\ ~ret
               /\ ErrorRecorded /\ ~Prompted /\ Logged("list") = {}
               /\ frame.I > 0 => \A k \in 1..Len(frame.UnreproducibleList) :
                                   frame.UnreproducibleList[k] # Items[frame.I].ShortDesc

\* what AuthPrompt does when called as the call that returned was
AuthPromptHere ==
  AuthPrompt([log |-> <<>>, reads |-> {}, stdin |-> args.Stdin], ShortDescs(Items),
             args.PromptUser)

\* C14: on every list that is not empty, and whatever PromptUser, the quiet
\* level, assume-yes, force-yes and the answer are, ReproduciblePrompt returns
\* what AuthPrompt returns when the override of the one is set as the override
\* of the other, and asks exactly when AuthPrompt asks.
C14_SamePolicyAsAuthPrompt ==
  (Returned("ReproduciblePrompt") /\ AllowUnreproducible = AllowUnauthenticated)
    => /\ ret = AuthPromptHere.ret
       /\ Prompted <=> \E i \in 1..Len(AuthPromptHere.w.log) :
                         AuthPromptHere.w.log[i].k = "prompt"

C14_Witness ==
  /\ Returned("ReproduciblePrompt") /\ ~AllowUnreproducible /\ ~AllowUnauthenticated
  /\ args.PromptUser /\ Quiet = 1 /\ ~AssumeYes /\ ForceYes
  /\ Len(Items) = 2 /\ Prompted /\ AnsweredYes /\ ret /\ AuthPromptHere.ret

Simulate == Setting(KeySimulate, FALSE)
Locking == ~Setting(KeyNoLocking, FALSE)

\* the archives the cache cannot download, among those on disk at the call
Obsolete ==
  {f \in args.Files0 : [Pkg |-> f.Pkg, Ver |-> f.Ver] \notin CacheVersions}

\* the positions in the log of the "Del" lines
DelLines == {i \in Logged("c1out") : log[i].t = MsgDel}

\* a "Del" line has been written for the archive
DelLineOf(f) ==
  \E i \in DelLines : log[i].l = <<f.Pkg, f.Ver, SizeToStr(f.Size)>>

\* C15: unless locking is disabled, the lock is taken before the cache is
\* opened and before any directory is gone through, and is held until the
\* call returns; when it cannot be taken the call fails with an error, no
\* cache opened, no directory gone through and every file still there; once
\* the call has returned, on whatever path, the lock is no longer held.
C15_LockHeldAroundCleaning ==
  op = "DoAutoClean"
    => /\ Locking /\ pc \in {"open", "primary", "partial"}
            => fs.LockedBy = "self" /\ frame.lock_fd >= 0
       /\ Locking => \A i \in Logged("CacheOpen") \cup Logged("Go") \cup DelLines :
                       \E j \in Logged("GetLock") : j < i /\ log[j].t = "ok"
       /\ ~Locking => Logged("GetLock") = {}
       /\ LoggedText("GetLock", "failed")
            => /\ pc = "done" /\ ~ret /\ LoggedText("Error", MsgUnableToLock)
               /\ Logged("CacheOpen") = {} /\ Logged("Go") = {} /\ DelLines = {}
               /\ fs.Files = args.Files0
       /\ pc = "done" => fs.LockedBy # "self" /\ frame.Cache = "closed"

C15_Witness ==
  /\ Returned("DoAutoClean") /\ Locking /\ ~ret
  /\ LoggedText("GetLock", "ok") /\ LoggedText("CacheOpen", "ok")
  /\ LoggedText("Error", MsgUnableToRead) /\ LoggedText("Go", PartialDir)
  /\ fs.LockedBy = "none"

\* C16: when simulating, DoAutoClean leaves every file on disk; otherwise the
\* files it has removed are exactly those it has written a "Del" line for; in
\* both modes a call that went through both directories has written one line
\* "Del <package> <version> [<size>B]" for each obsolete archive and for no
\* other file.
C16_EraseReportsAndRemoves ==
  op = "DoAutoClean"
    => /\ Simulate => fs.Files = args.Files0
       /\ ~Simulate => fs.Files = {f \in args.Files0 : ~DelLineOf(f)}
       /\ \A f \in args.Files0 : DelLineOf(f) => f \in Obsolete
       /\ Cardinality(DelLines) = Cardinality({f \in Obsolete : DelLineOf(f)})
       /\ (pc = "done" /\ ret /\ fs.Exists) => \A f \in Obsolete : DelLineOf(f)

C16_Witness ==
  /\ Returned("DoAutoClean") /\ ret /\ Simulate
  /\ Cardinality(DelLines) = 2 /\ fs.Files = args.Files0
  /\ \E f \in Obsolete : f.Dir = ArchiveDir /\ DelLineOf(f)
  /\ \E f \in Obsolete : f.Dir = PartialDir /\ DelLineOf(f)
  /\ \E f \in args.Files0 : f \notin Obsolete

\* C17: a call of DoAutoClean that has opened the cache and returned has gone
\* through both the archive directory and partial/, also when going through
\* the archive directory failed.
C17_BothDirectoriesCleaned ==
  (Returned("DoAutoClean") /\ LoggedText("CacheOpen", "ok"))
    => LoggedText("Go", ArchiveDir) /\ LoggedText("Go", PartialDir)

\* where in the log the lookup of item i was started, and its filter
LookupOf(i) ==
  CHOOSE s \in Spawned(CmdSourcePackage) : log[s].l = <<Items[i].ShortDesc>>
FilterOf(i) ==
  CHOOSE j \in Spawned(CmdJq) :
    j > LookupOf(i) /\ \A k \in Spawned(CmdJq) : k > LookupOf(i) => j <= k

\* the first line a command wrote, stripped; its exit follows its start
OutputOf(s) == StrStrip(log[s + 1].t)

OnUnreproducibleList(i) ==
  \E k \in 1..Len(frame.UnreproducibleList) :
    frame.UnreproducibleList[k] = Items[i].ShortDesc

\* CheckReproducible has returned, the override unset, every command of every
\* pipeline having exited with status 0
CheckedAllSucceeding ==
  Returned("CheckReproducible") /\ ~AllowUnreproducible /\ ~SubprocessFailed

\* every item was looked up once and filtered once, its filter asked for the
\* default release, the item's own resolved source name and the native
\* architecture, and the item is on the list (once) iff its own filter wrote
\* no record
ClassifiedByOwnFilter ==
  /\ Cardinality(Spawned(CmdSourcePackage)) = Len(Items)
  /\ Cardinality(Spawned(CmdJq)) = Len(Items)
  /\ \A i \in 1..Len(Items) :
       /\ log[FilterOf(i)].l
            = <<Setting(KeyReproducibleCache, ""), Setting(KeyDefaultRelease, "unstable"),
                IF OutputOf(LookupOf(i)) # "" THEN OutputOf(LookupOf(i))
                ELSE Items[i].ShortDesc,
                Setting(KeyArchitecture, "")>>
       /\ OnUnreproducibleList(i) <=> OutputOf(FilterOf(i)) = ""
  /\ Len(frame.UnreproducibleList)
       = Cardinality({i \in 1..Len(Items) : OnUnreproducibleList(i)})

\* C19 as stated: with every subprocess succeeding each item is classified by
\* its own filter, and the gate accepts without asking iff the list is empty.
C19_AcceptsUnaskedIffNoneListed ==
  CheckedAllSucceeding
    => /\ ClassifiedByOwnFilter
       /\ (ret /\ ~Prompted) <=> frame.UnreproducibleList = <<>>

\* C19: with every subprocess succeeding each item is classified by its own
\* filter, and the gate accepts with nothing listed, asked or warned of iff
\* the list is empty; a list that is not empty is always shown.
C19_ListedIffOwnFilterEmpty ==
  CheckedAllSucceeding
    => /\ ClassifiedByOwnFilter
       /\ (ret /\ ~Prompted /\ Logged("list") = {} /\ ~WarningRecorded)
            <=> frame.UnreproducibleList = <<>>
       /\ frame.UnreproducibleList # <<>> => Logged("list") # {}

C19_Witness ==
  /\ CheckedAllSucceeding /\ Len(Items) = 2
  /\ OutputOf(LookupOf(1)) = "src1" /\ OutputOf(LookupOf(2)) = ""
  /\ OnUnreproducibleList(1) /\ ~OnUnreproducibleList(2)
  /\ Prompted /\ AnsweredYes /\ ret

InDoDownload == op \in {"DoDownload", "DoDownload/CheckReproducible"}

\* the calls DoDownload has made of a function, by position in the log, and
\* whether a call of it has returned true
Called(f) == {i \in Logged("call") : log[i].t = f}
Accepted(f) == \E i \in Logged("return") : log[i].t = f /\ log[i].l = <<"TRUE">>
Denied(f) == \E i \in Logged("return") : log[i].t = f /\ log[i].l = <<"FALSE">>

\* C18: in DoDownload a fetch run is started only after SpaceGuard, TrustGate
\* and ReproducibilityGate have been called, in that order, and have each
\* accepted; a check that denies makes the command fail with no run started;
\* with --print-uris no check is called and no run is started.
C18_RunAfterThreeChecks ==
  InDoDownload
    => /\ \A r \in Logged("run") :
            /\ \E s \in Called("CheckFreeSpaceBeforeDownload"), a \in Called("CheckAuth"),
                  c \in Called("CheckReproducible") : s < a /\ a < c /\ c < r
            /\ Accepted("CheckFreeSpaceBeforeDownload")
            /\ Accepted("CheckAuth") /\ Accepted("CheckReproducible")
       /\ (Denied("CheckAuth") \/ Denied("CheckReproducible"))
            => Logged("run") = {} /\ pc = "done" /\ ~ret
       /\ PrintURIs => Logged("call") = {} /\ Logged("run") = {}

\* C20: DoDownload calls both gates with PromptUser false and AcquireRun with
\* a failure flag and no transient flag, so nothing is ever asked and the
\* transient flag is never set; without --print-uris it returns true iff no
\* error was pending before the gates, both gates accepted, the run did not
\* fail and every item ended done and complete; an item left idle makes it
\* return false, with an error reported and the failure flag set.
C20_DownloadSucceedsIff ==
  InDoDownload
    => /\ ~Prompted /\ ~TransientNetworkFailure
       /\ \A i \in Called("CheckAuth") \cup Called("CheckReproducible") :
            log[i].l = <<"false">>
       /\ \A i \in Called("AcquireRun") : log[i].l = <<"0", "&Failed", "NULL">>
       /\ (pc = "done" /\ op = "DoDownload" /\ ~PrintURIs)
            => /\ ret <=> /\ ~LoggedText("Error", MsgCantFindSource)
                          /\ Accepted("CheckAuth") /\ Accepted("CheckReproducible")
                          /\ Logged("run") # {} /\ args.RunResult # RunFailed
                          /\ \A i \in 1..Len(Items) : Succeeded(i)
               /\ (Logged("run") # {} /\ args.RunResult # RunFailed)
                    => \A i \in 1..Len(Items) :
                         Items[i].Status = StatIdle
                           => /\ ~ret /\ Failure
                              /\ \E e \in Logged("Error") :
                                   /\ log[e].t = MsgFailedToFetch
                                   /\ log[e].l[Len(log[e].l) - 1] = Items[i].ShortDesc

C20_Witness ==
  /\ pc = "done" /\ op = "DoDownload" /\ ~PrintURIs /\ ~ret /\ Failure
  /\ Logged("run") # {} /\ args.RunResult = RunContinue
  /\ Len(Items) = 2 /\ Succeeded(1)
  /\ Items[2].Status = StatIdle /\ ~Items[2].Complete
  /\ ~AllowUnreproducible /\ Accepted("CheckReproducible")

====
